---- MODULE Spec2Model ----
(***************************************************************************)
(* Growth calculator: the projection engine (computeProjection) of the two *)
(* page variants, the query-string initialisation of the page state        *)
(* (numberFromQuery), the metric formatting, and the subscribe relay       *)
(* (POST /api/subscribe).                                                  *)
(*                                                                         *)
(* Numbers.  A JavaScript number is modelled as an exact rational          *)
(* num/den in lowest terms (kind "finite"), or as one of the three         *)
(* non-finite values Infinity, -Infinity, NaN.  Arithmetic on finite       *)
(* values is exact: the binary rounding of IEEE-754 doubles and the sign   *)
(* of zero are outside the model.  The non-finite cases of each operator   *)
(* follow IEEE-754 / ECMAScript.                                           *)
(***************************************************************************)
EXTENDS Integers, Sequences, FiniteSets, TLC

VARIABLES
    s,          \* engine harness: the CalculatorState record passed to computeProjection
    ret000,     \* engine harness: last value returned by part_000's computeProjection
    ret001,     \* engine harness: last value returned by part_001's computeProjection
    variant,    \* which page file is loaded: "part_000" or "part_001"
    search,     \* window.location.search at load: per field name, the parameter's raw text
    state,      \* Home's state (a CalculatorState), or NotMounted before Home is constructed
    text,       \* part_000: the local text of each LabeledNumber, by field name
    result,     \* Home's memoised computeProjection(state)
    address,    \* the query of the page's address, as last written by Home's effect
    edits,      \* number of input events handled since the page was loaded
    event,      \* the last event the page handled: its kind, its input and e.target.value
    request,    \* relay: what req.json() yields for the incoming request
    env,        \* relay: process.env.SUBSCRIBE_WEBHOOK_URL
    pc,         \* relay: where POST stands
    response,   \* relay: the NextResponse returned, or NoResponse
    outbound,   \* relay: the fetch calls made to the webhook, in order
    envRead,    \* relay: whether POST has read process.env.SUBSCRIBE_WEBHOOK_URL
    webhook     \* relay: how the fetch call to the webhook settled, or "pending"

engineVars == <<s, ret000, ret001>>
pageVars == <<variant, search, state, text, result, address, edits, event>>
relayVars == <<request, env, pc, response, outbound, envRead, webhook>>
vars == <<engineVars, pageVars, relayVars>>

(***************************************************************************)
(* Bounds of the engine harness.                                           *)
(***************************************************************************)
MaxMoneyHalves == 5     \* targetMonthlyRevenue, pricePerClient range over k/2, k in -1..MaxMoneyHalves
MaxCount == 3           \* videosPerMonth, avgViewsPerVideo range over -1..MaxCount
MaxRawLen == 3          \* query harness: a parameter's raw text has at most MaxRawLen characters
MaxEdits == 2           \* page: at most MaxEdits input events after the load

(***************************************************************************)
(* JavaScript numbers.                                                     *)
(***************************************************************************)
Abs(x) == IF x < 0 THEN -x ELSE x

RECURSIVE GCD(_, _)
GCD(a, b) == IF b = 0 THEN a ELSE GCD(b, a % b)

\* the finite number n/d (d > 0), in lowest terms
Fin(n, d) ==
    LET g == GCD(Abs(n), d)
    IN  [kind |-> "finite", num |-> n \div g, den |-> d \div g]

Int2Num(n) == Fin(n, 1)

\* the finite number (n1 / d1) * (n2 / d2) of two fractions in lowest terms
\* (d1, d2 > 0), the common factors taken out before the products are formed
Ratio(n1, d1, n2, d2) ==
    LET g1 == GCD(Abs(n1), d2)
        g2 == GCD(Abs(n2), d1)
    IN  IF n1 = 0 \/ n2 = 0 THEN Fin(0, 1)
        ELSE Fin((n1 \div g1) * (n2 \div g2), (d1 \div g2) * (d2 \div g1))

Infinity == [kind |-> "Infinity", num |-> 1, den |-> 0]
NegInfinity == [kind |-> "-Infinity", num |-> -1, den |-> 0]
NaN == [kind |-> "NaN", num |-> 0, den |-> 0]

IsNaN(x) == x.kind = "NaN"
IsInf(x) == x.kind \in {"Infinity", "-Infinity"}

\* Number.isFinite
NumberIsFinite(x) == x.kind = "finite"

Sign(x) == IF x.num > 0 THEN 1 ELSE IF x.num < 0 THEN -1 ELSE 0

Signed(sg) == IF sg < 0 THEN NegInfinity ELSE Infinity

\* a * b
Mul(a, b) ==
    IF IsNaN(a) \/ IsNaN(b) THEN NaN
    ELSE IF IsInf(a) \/ IsInf(b)
         THEN IF Sign(a) * Sign(b) = 0 THEN NaN ELSE Signed(Sign(a) * Sign(b))
    ELSE Ratio(a.num, a.den, b.num, b.den)

\* a / b
Div(a, b) ==
    IF IsNaN(a) \/ IsNaN(b) THEN NaN
    ELSE IF IsInf(a)
         THEN IF IsInf(b) THEN NaN
              ELSE Signed(IF Sign(b) = 0 THEN Sign(a) ELSE Sign(a) * Sign(b))
    ELSE IF IsInf(b) THEN Int2Num(0)
    ELSE IF b.num = 0
         THEN IF a.num = 0 THEN NaN ELSE Signed(Sign(a))
    ELSE IF b.num > 0 THEN Ratio(a.num, a.den, b.den, b.num)
    ELSE Ratio(-a.num, a.den, b.den, -b.num)

\* >= in the place of >
GtAsGe(a, b) ==
    IF IsNaN(a) \/ IsNaN(b) THEN FALSE
    ELSE IF IsInf(a) /\ IsInf(b) THEN Sign(a) >= Sign(b)
    ELSE a.num * b.den >= b.num * a.den

\* a > b
Gt(a, b) ==
    IF IsNaN(a) \/ IsNaN(b) THEN FALSE
    ELSE IF IsInf(a) /\ IsInf(b) THEN Sign(a) > Sign(b)
    ELSE a.num * b.den > b.num * a.den

\* Math.max dropped: the second argument is used as it is
MathMaxNoFloor(a, b) == b

\* Math.max(a, b)
MathMax(a, b) ==
    IF IsNaN(a) \/ IsNaN(b) THEN NaN
    ELSE IF Gt(b, a) THEN b ELSE a

\* Math.floor in the place of Math.ceil
MathCeilAsFloor(x) ==
    IF x.kind = "finite" THEN Int2Num(x.num \div x.den) ELSE x

\* Math.ceil(x)
MathCeil(x) ==
    IF x.kind = "finite" THEN Int2Num(-((-x.num) \div x.den)) ELSE x

\* Math.floor in the place of Math.round
MathRoundAsFloor(x) ==
    IF x.kind = "finite" THEN Int2Num(x.num \div x.den) ELSE x

\* ties are rounded down
MathRoundHalfDown(x) ==
    IF x.kind = "finite" THEN Int2Num(-((x.den - 2 * x.num) \div (2 * x.den))) ELSE x

\* Math.round(x): the integer nearest to x, ties towards +Infinity
MathRound(x) ==
    IF x.kind = "finite" THEN Int2Num((2 * x.num + x.den) \div (2 * x.den)) ELSE x

IsInteger(x) == x.kind = "finite" /\ x.den = 1

Zero == Int2Num(0)
One == Int2Num(1)
\* a percent taken as a per-mille
HundredAsThousand == Fin(1000, 1)

Hundred == Int2Num(100)

(***************************************************************************)
(* The projection engine, part_000 (rounded-aligned New MRR).              *)
(***************************************************************************)
computeProjection_000(st) ==
    LET viewToBookingRate == Div(st.viewToBookingRatePct, Hundred)
        showRate == Div(st.showRatePct, Hundred)
        closeRate == Div(st.closeRatePct, Hundred)
        clientsNeeded == MathCeil(Div(st.targetMonthlyRevenue, MathMax(One, st.pricePerClient)))
        monthlyReach == Mul(st.videosPerMonth, st.avgViewsPerVideo)
        bookingsPerMonth == Mul(monthlyReach, viewToBookingRate)
        showsPerMonth == Mul(bookingsPerMonth, showRate)
        newClientsPerMonth == Mul(showsPerMonth, closeRate)
        newClientsRounded == MathRound(newClientsPerMonth)
        newMRR == Mul(newClientsRounded, st.pricePerClient)
        monthsToGoal == IF Gt(newClientsPerMonth, Zero)
                        THEN MathCeil(Div(clientsNeeded, newClientsPerMonth))
                        ELSE Infinity
    IN  [clientsNeeded |-> clientsNeeded,
         monthlyReach |-> monthlyReach,
         bookingsPerMonth |-> bookingsPerMonth,
         showsPerMonth |-> showsPerMonth,
         newClientsPerMonth |-> newClientsPerMonth,
         newMRR |-> newMRR,
         monthsToGoal |-> monthsToGoal]

(***************************************************************************)
(* The projection engine, part_001 (unrounded New MRR).                    *)
(***************************************************************************)
computeProjection_001(st) ==
    LET viewToBookingRate == Div(st.viewToBookingRatePct, Hundred)
        showRate == Div(st.showRatePct, Hundred)
        closeRate == Div(st.closeRatePct, Hundred)
        clientsNeeded == MathCeil(Div(st.targetMonthlyRevenue, MathMax(One, st.pricePerClient)))
        monthlyReach == Mul(st.videosPerMonth, st.avgViewsPerVideo)
        bookingsPerMonth == Mul(monthlyReach, viewToBookingRate)
        showsPerMonth == Mul(bookingsPerMonth, showRate)
        newClientsPerMonth == Mul(showsPerMonth, closeRate)
        newMRR == Mul(newClientsPerMonth, st.pricePerClient)
        monthsToGoal == IF Gt(newClientsPerMonth, Zero)
                        THEN MathCeil(Div(clientsNeeded, newClientsPerMonth))
                        ELSE Infinity
    IN  [clientsNeeded |-> clientsNeeded,
         monthlyReach |-> monthlyReach,
         bookingsPerMonth |-> bookingsPerMonth,
         showsPerMonth |-> showsPerMonth,
         newClientsPerMonth |-> newClientsPerMonth,
         newMRR |-> newMRR,
         monthsToGoal |-> monthsToGoal]

(***************************************************************************)
(* Metric formatting.  A displayed text is a sequence of characters.  The  *)
(* grouping and the currency sign are those of the en-US locale; the       *)
(* character U+2014 (em dash) is written "EMDASH" and U+221E "INFSIGN".    *)
(***************************************************************************)
DigitChars == <<"0", "1", "2", "3", "4", "5", "6", "7", "8", "9">>

RECURSIVE NatDigits(_)
NatDigits(n) ==
    IF n < 10 THEN <<DigitChars[n + 1]>>
    ELSE Append(NatDigits(n \div 10), DigitChars[(n % 10) + 1])

\* thousands separators, from the right
RECURSIVE Grouped(_)
Grouped(ds) ==
    IF Len(ds) <= 3 THEN ds
    ELSE Grouped(SubSeq(ds, 1, Len(ds) - 3)) \o <<",">> \o SubSeq(ds, Len(ds) - 2, Len(ds))

\* Intl.NumberFormat's rounding to 0 fraction digits: nearest integer, ties away from zero
RoundHalfExpand(x) ==
    IF x.kind = "finite"
    THEN LET m == (2 * Abs(x.num) + x.den) \div (2 * x.den)
         IN  Int2Num(IF x.num < 0 THEN -m ELSE m)
    ELSE x

\* new Intl.NumberFormat().format(x) for an x that Math.round or the formatter made whole
FormatWhole(x, prefix) ==
    IF IsNaN(x) THEN <<"N", "a", "N">>
    ELSE IF IsInf(x) THEN (IF Sign(x) < 0 THEN <<"-">> ELSE <<>>) \o prefix \o <<"INFSIGN">>
    ELSE (IF x.num < 0 THEN <<"-">> ELSE <<>>) \o prefix \o Grouped(NatDigits(Abs(x.num)))

\* the count truncated, not rounded, before it is formatted
formatIntTruncating(n) ==
    FormatWhole(IF n.kind = "finite" THEN Int2Num(n.num \div n.den) ELSE n, <<>>)

formatInt(n) == FormatWhole(MathRound(n), <<>>)

formatUsd(n) == FormatWhole(RoundHalfExpand(n), <<"$">>)

\* the Projection section of Home's render
MetricNewClients(res) == formatInt(res.newClientsPerMonth)
MetricNewMRR(res) == formatUsd(res.newMRR)
MetricMonthsToGoal(res) ==
    IF res.monthsToGoal = Infinity THEN <<"EMDASH">> ELSE formatInt(res.monthsToGoal)


(***************************************************************************)
(* Number(string): ECMAScript's StringToNumber on a sequence of            *)
(* characters.  White space is the character " "; a decimal literal has an *)
(* optional sign, digits with an optional ".", and an optional exponent;   *)
(* the text "Infinity" (signed or not) is an infinity; the empty text is   *)
(* 0; anything else is NaN.  The 0x / 0o / 0b literals are not modelled    *)
(* (no harness text contains x, o or b).  A literal whose leading digit is *)
(* beyond 10^308 is Infinity, one below 10^-324 is 0.                      *)
(***************************************************************************)
IsDigit(c) == c \in {DigitChars[j] : j \in 1..10}

AllDigits(str) == \A i \in 1..Len(str) : IsDigit(str[i])

RECURSIVE TrimLeft(_)
TrimLeft(str) ==
    IF str # <<>> /\ Head(str) = " " THEN TrimLeft(Tail(str)) ELSE str

RECURSIVE TrimRight(_)
TrimRight(str) ==
    IF str # <<>> /\ str[Len(str)] = " " THEN TrimRight(SubSeq(str, 1, Len(str) - 1)) ELSE str

Trim(str) == TrimRight(TrimLeft(str))

\* index of the first character of str that is in cs, or 0
FirstIndex(str, cs) ==
    IF \E i \in 1..Len(str) : str[i] \in cs
    THEN CHOOSE i \in 1..Len(str) : str[i] \in cs /\ \A j \in 1..(i - 1) : str[j] \notin cs
    ELSE 0

RECURSIVE DigitsValue(_, _)
DigitsValue(str, acc) ==
    IF str = <<>> THEN acc
    ELSE DigitsValue(Tail(str), 10 * acc + (CHOOSE j \in 0..9 : DigitChars[j + 1] = Head(str)))

RECURSIVE Pow10(_)
Pow10(e) == IF e = 0 THEN 1 ELSE 10 * Pow10(e - 1)

RECURSIVE StripLeadingZeros(_)
StripLeadingZeros(str) ==
    IF str # <<>> /\ Head(str) = "0" THEN StripLeadingZeros(Tail(str)) ELSE str

\* the unsigned literal: mantissa [exponent]
UnsignedToNumber(u) ==
    LET ePos == FirstIndex(u, {"e", "E"})
        mant == IF ePos = 0 THEN u ELSE SubSeq(u, 1, ePos - 1)
        expo == IF ePos = 0 THEN <<>> ELSE SubSeq(u, ePos + 1, Len(u))
        expNeg == expo # <<>> /\ Head(expo) = "-"
        expDigits == IF expo # <<>> /\ Head(expo) \in {"+", "-"} THEN Tail(expo) ELSE expo
        dot == FirstIndex(mant, {"."})
        ip == IF dot = 0 THEN mant ELSE SubSeq(mant, 1, dot - 1)
        fp == IF dot = 0 THEN <<>> ELSE SubSeq(mant, dot + 1, Len(mant))
        wellFormed ==
            /\ AllDigits(ip) /\ AllDigits(fp)
            /\ Len(ip) + Len(fp) > 0
            /\ ePos # 0 => (expDigits # <<>> /\ AllDigits(expDigits))
        sig == StripLeadingZeros(ip \o fp)
        e == IF expNeg THEN -DigitsValue(expDigits, 0) ELSE DigitsValue(expDigits, 0)
        \* the decimal exponent of the leading significant digit
        lead == e - Len(fp) + Len(sig) - 1
    IN  IF ~wellFormed THEN NaN
        ELSE IF sig = <<>> THEN Int2Num(0)
        ELSE IF lead > 308 THEN Infinity
        ELSE IF lead < -324 THEN Int2Num(0)
        ELSE IF e >= Len(fp) THEN Fin(DigitsValue(sig, 0) * Pow10(e - Len(fp)), 1)
        ELSE Fin(DigitsValue(sig, 0), Pow10(Len(fp) - e))

Negate(x) ==
    IF x.kind = "finite" THEN Fin(-x.num, x.den)
    ELSE IF IsInf(x) THEN Signed(-Sign(x))
    ELSE x

InfinityText == <<"I", "n", "f", "i", "n", "i", "t", "y">>

\* Number(str)
StringToNumber(str) ==
    LET t == Trim(str)
        signed == t # <<>> /\ Head(t) \in {"+", "-"}
        u == IF signed THEN Tail(t) ELSE t
        v == IF u = InfinityText THEN Infinity ELSE UnsignedToNumber(u)
    IN  IF t = <<>> THEN Int2Num(0)
        ELSE IF signed /\ Head(t) = "-" THEN Negate(v)
        ELSE v

(***************************************************************************)
(* The page's query string and the initial state of Home.                  *)
(***************************************************************************)
Fields ==
    {"targetMonthlyRevenue", "pricePerClient", "videosPerMonth", "avgViewsPerVideo",
     "viewToBookingRatePct", "showRatePct", "closeRatePct"}

\* what URLSearchParams.get returns: null, or the parameter's text
Null == [isNull |-> TRUE, text |-> <<>>]
Text(str) == [isNull |-> FALSE, text |-> str]

URLSearchParamsGet(query, key) == query[key]

\* !raw for a raw that is null or a string
Falsy(raw) == raw.isNull \/ raw.text = <<>>

\* a falsy test of the parsed number in the place of the raw text
numberFromQueryFalsyNumber(query, key, fallback) ==
    LET raw == URLSearchParamsGet(query, key)
        n == IF raw.isNull THEN NaN ELSE StringToNumber(raw.text)
    IN  IF raw.isNull \/ IsNaN(n) \/ n = Int2Num(0) THEN fallback
        ELSE IF NumberIsFinite(n) THEN n ELSE fallback

numberFromQuery(query, key, fallback) ==
    LET raw == URLSearchParamsGet(query, key)
    IN  IF Falsy(raw) THEN fallback
        ELSE LET n == StringToNumber(raw.text)
             IN  IF NumberIsFinite(n) THEN n ELSE fallback

\* the fallbacks of Home's useState initialiser
\* part_000 with the price fallback of the other profile
Defaults_000_OtherPrice ==
    [targetMonthlyRevenue |-> Int2Num(50000),
     pricePerClient |-> Int2Num(2000),
     videosPerMonth |-> Int2Num(12),
     avgViewsPerVideo |-> Int2Num(1000),
     viewToBookingRatePct |-> Fin(8, 10),
     showRatePct |-> Int2Num(60),
     closeRatePct |-> Int2Num(40)]

Defaults_000 ==
    [targetMonthlyRevenue |-> Int2Num(50000),
     pricePerClient |-> Int2Num(500),
     videosPerMonth |-> Int2Num(12),
     avgViewsPerVideo |-> Int2Num(1000),
     viewToBookingRatePct |-> Fin(8, 10),
     showRatePct |-> Int2Num(60),
     closeRatePct |-> Int2Num(40)]

Defaults_001 ==
    [targetMonthlyRevenue |-> Int2Num(50000),
     pricePerClient |-> Int2Num(2000),
     videosPerMonth |-> Int2Num(12),
     avgViewsPerVideo |-> Int2Num(1500),
     viewToBookingRatePct |-> Int2Num(2),
     showRatePct |-> Int2Num(70),
     closeRatePct |-> Int2Num(25)]

Variants == {"part_000", "part_001"}

Defaults(v) == IF v = "part_000" THEN Defaults_000 ELSE Defaults_001

\* Home's useState initialiser
InitialState(v, q) ==
    [f \in Fields |-> numberFromQuery(q, f, Defaults(v)[f])]

NotMounted == [f \in Fields |-> NaN]

(***************************************************************************)
(* String(number): the decimal text of a number.  Every number the page    *)
(* turns into text is a terminating decimal (a parsed literal, a default,  *)
(* a min or a slider stop) of magnitude in [1e-6, 1e21) or zero, which     *)
(* JavaScript prints in positional notation without an exponent.           *)
(***************************************************************************)
RECURSIVE FractionDigits(_, _, _)
FractionDigits(r, d, k) ==
    IF r = 0 \/ k = 0 THEN <<>>
    ELSE <<DigitChars[((10 * r) \div d) + 1]>> \o FractionDigits((10 * r) % d, d, k - 1)

NumberToString(x) ==
    IF IsNaN(x) THEN <<"N", "a", "N">>
    ELSE IF IsInf(x) THEN (IF Sign(x) < 0 THEN <<"-">> ELSE <<>>) \o InfinityText
    ELSE LET a == Abs(x.num)
         IN  (IF x.num < 0 THEN <<"-">> ELSE <<>>)
                 \o NatDigits(a \div x.den)
                 \o (IF a % x.den = 0 THEN <<>>
                     ELSE <<".">> \o FractionDigits(a % x.den, x.den, 20))

(***************************************************************************)
(* The page: Home and its inputs.                                          *)
(***************************************************************************)
NumberFields == {"targetMonthlyRevenue", "pricePerClient", "videosPerMonth", "avgViewsPerVideo"}
SliderFields == {"viewToBookingRatePct", "showRatePct", "closeRatePct"}

\* the min attribute of each LabeledNumber (the same in both files)
NumberMin ==
    [targetMonthlyRevenue |-> Int2Num(1000),
     pricePerClient |-> Int2Num(100),
     videosPerMonth |-> Int2Num(0),
     avgViewsPerVideo |-> Int2Num(0)]

\* min, max and step of each LabeledSlider
SliderRange(v, f) ==
    IF f = "viewToBookingRatePct"
    THEN IF v = "part_000"
         THEN [min |-> Fin(5, 10), max |-> Int2Num(2), step |-> Fin(1, 10)]
         ELSE [min |-> Fin(1, 10), max |-> Int2Num(5), step |-> Fin(1, 10)]
    ELSE [min |-> Int2Num(0), max |-> Int2Num(100), step |-> Fin(5, 10)]

computeProjection(v, st) ==
    IF v = "part_000" THEN computeProjection_000(st) ELSE computeProjection_001(st)

\* the values are written as whole numbers
WrittenQueryRounded(st) == [f \in Fields |-> Text(NumberToString(MathRound(st[f])))]

\* Home's effect on [state]: every entry of the state is set in a fresh URLSearchParams
WrittenQuery(st) == [f \in Fields |-> Text(NumberToString(st[f]))]

NoText == [f \in NumberFields |-> <<>>]


(***************************************************************************)
(* The subscribe relay: POST of app/api/subscribe/route.ts.                *)
(* A JavaScript value of the request body is a record of its typeof-like   *)
(* type and its content written as text.                                   *)
(***************************************************************************)
Undefined == [type |-> "undefined", val |-> ""]
JsNull == [type |-> "null", val |-> ""]
JsString(str) == [type |-> "string", val |-> str]
JsNumber(str) == [type |-> "number", val |-> str]
JsBoolean(str) == [type |-> "boolean", val |-> str]
JsObject(str) == [type |-> "object", val |-> str]

\* ToBoolean
Truthy(v) ==
    CASE v.type \in {"undefined", "null"} -> FALSE
      [] v.type = "string" -> v.val # ""
      [] v.type = "number" -> v.val \notin {"0", "NaN"}
      [] v.type = "boolean" -> v.val = "true"
      [] OTHER -> TRUE

\* typeof v
TypeOf(v) == IF v.type = "null" THEN "object" ELSE v.type

\* payload ?? null
NullishCoalesceNull(v) == IF v.type \in {"undefined", "null"} THEN JsNull ELSE v

NoResponse == [status |-> 0, ok |-> FALSE, error |-> "none"]
JsonResponse(status, ok, error) == [status |-> status, ok |-> ok, error |-> error]

StatusBadRequest == 400
StatusServerError == 500
StatusOk == 200

\* the catch block
Caught == JsonResponse(StatusBadRequest, FALSE, "Bad request")

\* the payload is forwarded as it came, without ?? null
WebhookCallPayloadAsIs(url, email, payload) ==
    [url |-> url, method |-> "POST",
     body |-> [email |-> email, payload |-> payload,
               source |-> "prjct-zenith-calculator"]]

\* the body of the fetch call
WebhookCall(url, email, payload) ==
    [url |-> url, method |-> "POST",
     body |-> [email |-> email, payload |-> NullishCoalesceNull(payload),
               source |-> "prjct-zenith-calculator"]]

\* the webhook configuration is looked at before the email
AfterJsonConfigFirst(req, url) ==
    IF req.kind \in {"invalid", "null"}
    THEN [pc |-> "done", response |-> Caught, outbound |-> <<>>, envRead |-> FALSE]
    ELSE IF ~Truthy(url)
    THEN [pc |-> "done", envRead |-> TRUE, outbound |-> <<>>,
          response |-> JsonResponse(StatusServerError, FALSE, "Missing SUBSCRIBE_WEBHOOK_URL")]
    ELSE IF ~Truthy(req.email) \/ TypeOf(req.email) # "string"
    THEN [pc |-> "done", envRead |-> TRUE, outbound |-> <<>>,
          response |-> JsonResponse(StatusBadRequest, FALSE, "Invalid email")]
    ELSE [pc |-> "fetching", envRead |-> TRUE, response |-> NoResponse,
          outbound |-> <<WebhookCall(url.val, req.email, req.payload)>>]

\* POST from the settling of req.json() to the return or to the await of fetch:
\* req.json() rejects on a body that is no JSON, and destructuring null throws
AfterJson(req, url) ==
    IF req.kind \in {"invalid", "null"}
    THEN [pc |-> "done", response |-> Caught, outbound |-> <<>>, envRead |-> FALSE]
    ELSE IF ~Truthy(req.email) \/ TypeOf(req.email) # "string"
    THEN [pc |-> "done", envRead |-> FALSE, outbound |-> <<>>,
          response |-> JsonResponse(StatusBadRequest, FALSE, "Invalid email")]
    ELSE IF ~Truthy(url)
    THEN [pc |-> "done", envRead |-> TRUE, outbound |-> <<>>,
          response |-> JsonResponse(StatusServerError, FALSE, "Missing SUBSCRIBE_WEBHOOK_URL")]
    ELSE [pc |-> "fetching", envRead |-> TRUE, response |-> NoResponse,
          outbound |-> <<WebhookCall(url.val, req.email, req.payload)>>]

EmailValues ==
    {Undefined, JsNull, JsString(""), JsString("a@b.c"), JsString("x"),
     JsNumber("0"), JsNumber("7"), JsBoolean("true"), JsObject("{}")}

PayloadValues == {Undefined, JsNull, JsObject("{...}")}

\* what req.json() yields: a rejection, null, a value without members, or an object
Requests ==
    {[kind |-> "invalid", email |-> Undefined, payload |-> Undefined],
     [kind |-> "null", email |-> Undefined, payload |-> Undefined],
     [kind |-> "primitive", email |-> Undefined, payload |-> Undefined]}
    \cup [kind : {"object"}, email : EmailValues, payload : PayloadValues]

EnvValues == {Undefined, JsString(""), JsString("https://hook.example/in")}

\* the outcomes of the outbound call: it rejects, or the webhook answers with a status
WebhookOutcomes == {"rejects", "200", "404", "500"}

RelayIdle ==
    /\ request = [kind |-> "invalid", email |-> Undefined, payload |-> Undefined]
    /\ env = Undefined
    /\ pc = "idle"
    /\ response = NoResponse
    /\ outbound = <<>>
    /\ envRead = FALSE
    /\ webhook = "pending"

(***************************************************************************)
(* Engine harness: the input record is drawn from a bounded grid of finite *)
(* numbers and each page's computeProjection is applied to it.             *)
(***************************************************************************)
NoResult == [called |-> FALSE]

MoneyValues == {Fin(k, 2) : k \in -1..MaxMoneyHalves}
CountValues == {Int2Num(k) : k \in -1..MaxCount}
RateValues == {Int2Num(0), Int2Num(50), Int2Num(100)}

EngineInputs ==
    [targetMonthlyRevenue : MoneyValues,
     pricePerClient : MoneyValues,
     videosPerMonth : CountValues,
     avgViewsPerVideo : CountValues,
     viewToBookingRatePct : RateValues,
     showRatePct : RateValues,
     closeRatePct : RateValues]

EmptyQuery == [f \in Fields |-> Null]

\* an event of the page: a load, or an input event with the field its input is
\* bound to and the value the input hands over
Event(kind, f, value) == [kind |-> kind, field |-> f, value |-> value]

PageIdle ==
    /\ variant = "part_000"
    /\ search = EmptyQuery
    /\ state = NotMounted
    /\ text = NoText
    /\ result = NoResult
    /\ address = EmptyQuery
    /\ edits = 0
    /\ event = Event("none", "none", <<>>)

EngineInit ==
    /\ s \in EngineInputs
    /\ ret000 = NoResult
    /\ ret001 = NoResult
    /\ PageIdle
    /\ RelayIdle

CallRounded ==
    /\ ret000 = NoResult
    /\ ret000' = [called |-> TRUE, value |-> computeProjection_000(s)]
    /\ UNCHANGED <<s, ret001, pageVars, relayVars>>

CallUnrounded ==
    /\ ret001 = NoResult
    /\ ret001' = [called |-> TRUE, value |-> computeProjection_001(s)]
    /\ UNCHANGED <<s, ret000, pageVars, relayVars>>

EngineNext == CallRounded \/ CallUnrounded

SpecEngine == EngineInit /\ [][EngineNext]_vars

(***************************************************************************)
(* Query harness: the page is opened with a query string that carries at   *)
(* most one of the seven parameters, its text drawn from all the texts of  *)
(* at most MaxRawLen characters of RawAlphabet and a few longer ones; then *)
(* Home is constructed.                                                    *)
(***************************************************************************)
RawAlphabet == {"0", "1", "5", ".", "-", "+", " ", "a"}

RECURSIVE TextsUpTo(_)
TextsUpTo(n) ==
    IF n = 0 THEN {<<>>}
    ELSE LET shorter == TextsUpTo(n - 1)
         IN  shorter \cup {Append(t, c) : t \in {u \in shorter : Len(u) = n - 1}, c \in RawAlphabet}

LongTexts ==
    {InfinityText, <<"-">> \o InfinityText, <<"+">> \o InfinityText,
     <<"1", "e", "9", "9", "9">>, <<"N", "a", "N">>, <<" ", "5", "0", "0", " ">>,
     <<"1", "5", "e", "-", "1">>, <<"1", "e", "3">>, <<"5", "E", "+", "2">>,
     <<"e", "5">>, <<"1", "e">>, <<"1", "e", "-", "9", "9", "9">>}

RawTexts == TextsUpTo(MaxRawLen) \cup LongTexts

EngineIdle ==
    /\ s = Defaults_000
    /\ ret000 = NoResult
    /\ ret001 = NoResult

OneParam(f, txt) == [g \in Fields |-> IF g = f THEN Text(txt) ELSE Null]

QueryInit ==
    /\ EngineIdle
    /\ RelayIdle
    /\ variant \in Variants
    /\ search \in {EmptyQuery} \cup {OneParam(f, txt) : f \in Fields, txt \in RawTexts}
    /\ state = NotMounted
    /\ text = NoText
    /\ result = NoResult
    /\ address = EmptyQuery
    /\ edits = 0
    /\ event = Event("none", "none", <<>>)

Construct000 ==
    /\ variant = "part_000"
    /\ state = NotMounted
    /\ state' = InitialState("part_000", search)
    /\ UNCHANGED <<engineVars, relayVars, variant, search, text, result, address, edits, event>>

Construct001 ==
    /\ variant = "part_001"
    /\ state = NotMounted
    /\ state' = InitialState("part_001", search)
    /\ UNCHANGED <<engineVars, relayVars, variant, search, text, result, address, edits, event>>

QueryNext == Construct000 \/ Construct001

SpecQuery == QueryInit /\ [][QueryNext]_vars

(***************************************************************************)
(* The page.  It is loaded with no parameter, with one parameter, or with  *)
(* all seven; then input events follow: typing in a number input, leaving  *)
(* it, moving a slider.  A number input hands over the empty text or a     *)
(* valid floating-point number (one of them beyond the range of a double:  *)
(* the input's sanitisation is by syntax), a slider one of its stops.      *)
(***************************************************************************)
LoadTexts == {<<"0">>, <<"a", "b", "c">>, <<"2", ".", "5">>}

FullQuery == [f \in Fields |-> Text(<<"4">>)]

\* the fields a one-parameter address of the page names: a number input and two sliders
LoadFields == {"pricePerClient", "viewToBookingRatePct", "closeRatePct"}

PageQueries ==
    {EmptyQuery, FullQuery} \cup {OneParam(f, txt) : f \in LoadFields, txt \in LoadTexts}

TypedTexts ==
    {<<>>, <<"0">>, <<"2", ".", "5">>, <<"-", "1">>, <<"0", "8">>,
     <<"1", "e", "9", "9", "9">>}

\* the positions a drag is sampled at: both ends of the track and one position
\* of the step grid between them (one step up for the booking rate, a hundred
\* steps up for the show and close rates)
SliderStops(v, f) ==
    LET r == SliderRange(v, f)
        k == IF f = "viewToBookingRatePct" THEN 1 ELSE 100
    IN  {r.min, r.max, Fin(r.min.num * r.step.den + k * r.step.num * r.min.den,
                           r.min.den * r.step.den)}

\* what Home shows after a render with state st
Rendered(v, st) == [called |-> TRUE, value |-> computeProjection(v, st)]

\* the effect on [props.value] is missing: the local text stays as it was typed
SyncedTextKeepsTyped(f, typed, old, new) == typed

\* LabeledNumber's effect on [props.value]: the local text follows a changed value
SyncedText(f, typed, old, new) ==
    IF new # old THEN NumberToString(new) ELSE typed

Init ==
    /\ EngineIdle
    /\ RelayIdle
    /\ variant \in Variants
    /\ search \in PageQueries
    /\ state = InitialState(variant, search)
    /\ text = IF variant = "part_000"
              THEN [f \in NumberFields |-> NumberToString(state[f])]
              ELSE NoText
    /\ result = Rendered(variant, state)
    /\ address = WrittenQuery(state)
    /\ edits = 0
    /\ event = Event("load", "none", <<>>)

\* the memoised result is not recomputed
SetFieldStaleResult(f, v) ==
    /\ state' = [state EXCEPT ![f] = v]
    /\ UNCHANGED result
    /\ address' = WrittenQuery(state')

\* setState(() => ({ ...defaults, [f]: v })): the other fields are not carried over
SetFieldDropsOthers(f, v) ==
    /\ state' = [Defaults(variant) EXCEPT ![f] = v]
    /\ result' = Rendered(variant, state')
    /\ address' = WrittenQuery(state')

\* setState((s) => ({ ...s, [f]: v })), followed by Home's effect and memo
SetField(f, v) ==
    /\ state' = [state EXCEPT ![f] = v]
    /\ result' = Rendered(variant, state')
    /\ address' = WrittenQuery(state')

\* part_000, LabeledNumber.onChange: setText(v); commitIfValid(v)
Type000(f, v) ==
    /\ variant = "part_000"
    /\ edits < MaxEdits
    /\ edits' = edits + 1
    /\ event' = Event("type", f, v)
    /\ IF v # <<>> /\ NumberIsFinite(StringToNumber(v))
       THEN /\ SetField(f, StringToNumber(v))
            /\ text' = [text EXCEPT ![f] = SyncedText(f, v, state[f], StringToNumber(v))]
       ELSE /\ text' = [text EXCEPT ![f] = v]
            /\ UNCHANGED <<state, result, address>>
    /\ UNCHANGED <<engineVars, relayVars, variant, search>>

\* part_000, LabeledNumber.handleBlur
Blur000(f) ==
    /\ variant = "part_000"
    /\ edits < MaxEdits
    /\ edits' = edits + 1
    /\ event' = Event("blur", f, text[f])
    /\ IF text[f] = <<>>
       THEN /\ SetField(f, NumberMin[f])
            /\ text' = [text EXCEPT ![f] = NumberToString(NumberMin[f])]
       ELSE IF NumberIsFinite(StringToNumber(text[f]))
       THEN /\ SetField(f, StringToNumber(text[f]))
            /\ text' = [text EXCEPT ![f] = SyncedText(f, text[f], state[f], StringToNumber(text[f]))]
       ELSE UNCHANGED <<state, result, address, text>>
    /\ UNCHANGED <<engineVars, relayVars, variant, search>>

\* part_001, LabeledNumber.onChange: props.onChange(Number(e.target.value))
Type001(f, v) ==
    /\ variant = "part_001"
    /\ edits < MaxEdits
    /\ edits' = edits + 1
    /\ event' = Event("type", f, v)
    /\ SetField(f, StringToNumber(v))
    /\ UNCHANGED <<engineVars, relayVars, variant, search, text>>

\* LabeledSlider.onChange: props.onChange(Number(e.target.value))
Slide(f, v) ==
    /\ edits < MaxEdits
    /\ edits' = edits + 1
    /\ event' = Event("slide", f, NumberToString(v))
    /\ SetField(f, StringToNumber(NumberToString(v)))
    /\ UNCHANGED <<engineVars, relayVars, variant, search, text>>

\* the page is loaded again from the address Home's effect wrote
Reload ==
    /\ edits < MaxEdits
    /\ edits' = edits + 1
    /\ event' = Event("load", "none", <<>>)
    /\ search' = address
    /\ state' = InitialState(variant, search')
    /\ text' = IF variant = "part_000"
               THEN [f \in NumberFields |-> NumberToString(state'[f])]
               ELSE NoText
    /\ result' = Rendered(variant, state')
    /\ address' = WrittenQuery(state')
    /\ UNCHANGED <<engineVars, relayVars, variant>>

Next ==
    \/ \E f \in NumberFields, v \in TypedTexts : Type000(f, v)
    \/ \E f \in NumberFields : Blur000(f)
    \/ \E f \in NumberFields, v \in TypedTexts : Type001(f, v)
    \/ \E f \in SliderFields : \E v \in SliderStops(variant, f) : Slide(f, v)
    \/ Reload

Spec == Init /\ [][Next]_vars

(***************************************************************************)
(* Relay harness: one request, with any body and any configuration.        *)
(***************************************************************************)
RelayInit ==
    /\ EngineIdle
    /\ PageIdle
    /\ request \in Requests
    /\ env \in EnvValues
    /\ pc = "awaitingJson"
    /\ response = NoResponse
    /\ outbound = <<>>
    /\ envRead = FALSE
    /\ webhook = "pending"

\* await req.json() settles and POST runs on to its return or to await fetch(...)
JsonSettles ==
    /\ pc = "awaitingJson"
    /\ LET next == AfterJson(request, env)
       IN  /\ pc' = next.pc
           /\ response' = next.response
           /\ outbound' = next.outbound
           /\ envRead' = next.envRead
    /\ UNCHANGED <<engineVars, pageVars, request, env, webhook>>

\* await fetch(...) settles: a rejection is caught, any answer of the webhook is a success
FetchSettles(outcome) ==
    /\ pc = "fetching"
    /\ pc' = "done"
    /\ webhook' = outcome
    /\ response' = IF outcome = "rejects" THEN Caught
                   ELSE JsonResponse(StatusOk, TRUE, "none")
    /\ UNCHANGED <<engineVars, pageVars, request, env, outbound, envRead>>

RelayNext ==
    \/ JsonSettles
    \/ \E outcome \in WebhookOutcomes : FetchSettles(outcome)

SpecRelay == RelayInit /\ [][RelayNext]_vars

(***************************************************************************)
(* Properties of the projection engine (checked under SpecEngine).         *)
(***************************************************************************)
Returned == {r \in {ret000, ret001} : r.called}
BothCalled == ret000.called /\ ret001.called

\* comparisons of the properties, on numerators and denominators
IsPositive(x) == x.num > 0
AtLeast(a, b) == NumberIsFinite(a) /\ NumberIsFinite(b) /\ a.num * b.den >= b.num * a.den

\* the divisor of clientsNeeded: pricePerClient floored at 1
Denominator == IF s.pricePerClient.num > s.pricePerClient.den THEN s.pricePerClient ELSE One

Pred(n) == Int2Num(n.num - 1)

\* n is the smallest integer with n * by >= goal
SmallestCover(n, by, goal) ==
    /\ IsInteger(n)
    /\ AtLeast(Mul(n, by), goal)
    /\ ~AtLeast(Mul(Pred(n), by), goal)

\* C1: in both page variants clientsNeeded is the smallest integer n with
\* n * max(1, pricePerClient) >= targetMonthlyRevenue, and whenever
\* newClientsPerMonth > 0 monthsToGoal is the smallest integer m with
\* m * newClientsPerMonth >= clientsNeeded; neither is rounded down.
C1_CeilingRounding ==
    \A r \in Returned :
        /\ SmallestCover(r.value.clientsNeeded, Denominator, s.targetMonthlyRevenue)
        /\ IsPositive(r.value.newClientsPerMonth) =>
               SmallestCover(r.value.monthsToGoal, r.value.newClientsPerMonth,
                             r.value.clientsNeeded)

\* both quotients are fractional, so a ceiling and a floor differ
C1_Witness ==
    /\ BothCalled
    /\ ~IsInteger(Div(s.targetMonthlyRevenue, Denominator))
    /\ IsPositive(ret000.value.newClientsPerMonth)
    /\ ~IsInteger(Div(ret000.value.clientsNeeded, ret000.value.newClientsPerMonth))
    /\ ~IsInteger(Div(ret001.value.clientsNeeded, ret001.value.newClientsPerMonth))

PriceNotPositive == ~IsPositive(s.pricePerClient)

\* C2 as stated: with pricePerClient <= 0, clientsNeeded is ceiling(target / 1),
\* no division error occurs, and clientsNeeded is neither negative nor zero.
C2_Original ==
    \A r \in Returned :
        PriceNotPositive =>
            /\ NumberIsFinite(r.value.clientsNeeded)
            /\ SmallestCover(r.value.clientsNeeded, One, s.targetMonthlyRevenue)
            /\ IsPositive(r.value.clientsNeeded)

\* C2 (amended): with pricePerClient <= 0, clientsNeeded is ceiling(target / 1),
\* a finite number (no division error); it is positive exactly when
\* targetMonthlyRevenue is positive.
C2_DenominatorOne ==
    \A r \in Returned :
        PriceNotPositive =>
            /\ NumberIsFinite(r.value.clientsNeeded)
            /\ SmallestCover(r.value.clientsNeeded, One, s.targetMonthlyRevenue)
            /\ IsPositive(r.value.clientsNeeded) <=> IsPositive(s.targetMonthlyRevenue)

C2_Witness ==
    /\ BothCalled
    /\ s.pricePerClient = Zero
    /\ IsPositive(s.targetMonthlyRevenue)
    /\ ~IsInteger(s.targetMonthlyRevenue)
    /\ ~AtLeast(s.targetMonthlyRevenue, ret000.value.clientsNeeded)

IsDisplayedNumber(txt) ==
    /\ Len(txt) > 0
    /\ \A i \in 1..Len(txt) : txt[i] \in {DigitChars[j] : j \in 1..10} \cup {",", "-"}

UpstreamZero ==
    \/ s.closeRatePct = Zero
    \/ s.showRatePct = Zero
    \/ s.viewToBookingRatePct = Zero
    \/ Mul(s.videosPerMonth, s.avgViewsPerVideo) = Zero

\* C3: monthsToGoal is a finite number exactly when newClientsPerMonth > 0 and
\* is the 'never' marker otherwise; a zero rate or a zero reach gives
\* newClientsPerMonth = 0 and the marker; the marker is no finite number, and
\* the page shows it as an em dash and every finite value as a number.
C3_NeverMarker ==
    \A r \in Returned :
        /\ NumberIsFinite(r.value.monthsToGoal) <=> IsPositive(r.value.newClientsPerMonth)
        /\ ~IsPositive(r.value.newClientsPerMonth) =>
               /\ r.value.monthsToGoal = Infinity
               /\ ~IsInteger(r.value.monthsToGoal)
               /\ MetricMonthsToGoal(r.value) = <<"EMDASH">>
        /\ UpstreamZero =>
               /\ r.value.newClientsPerMonth = Zero
               /\ r.value.monthsToGoal = Infinity
        /\ IsPositive(r.value.newClientsPerMonth) =>
               IsDisplayedNumber(MetricMonthsToGoal(r.value))

\* only the close rate is zero: the reach and the two upstream rates are positive
C3_Witness ==
    /\ BothCalled
    /\ s.closeRatePct = Zero
    /\ IsPositive(Mul(s.videosPerMonth, s.avgViewsPerVideo))
    /\ IsPositive(s.viewToBookingRatePct) /\ IsPositive(s.showRatePct)
    /\ ret000.value.monthsToGoal = Infinity
    /\ ret001.value.monthsToGoal = Infinity
    /\ MetricMonthsToGoal(ret000.value) = <<"EMDASH">>

NonNegativeInputs ==
    \A f \in DOMAIN s : s[f].num >= 0

\* x = a * b / c, stated on numerators and denominators
IsProductOver(x, a, b, c) ==
    /\ NumberIsFinite(x)
    /\ x.num * a.den * b.den * c = a.num * b.num * x.den

\* C4: for non-negative inputs monthlyReach = videosPerMonth * avgViewsPerVideo,
\* bookingsPerMonth = monthlyReach * viewToBookingRatePct / 100, showsPerMonth =
\* bookingsPerMonth * showRatePct / 100 and newClientsPerMonth = showsPerMonth *
\* closeRatePct / 100, the last one not rounded.
C4_FunnelProducts ==
    \A r \in Returned :
        NonNegativeInputs =>
            /\ IsProductOver(r.value.monthlyReach, s.videosPerMonth, s.avgViewsPerVideo, 1)
            /\ IsProductOver(r.value.bookingsPerMonth, r.value.monthlyReach,
                             s.viewToBookingRatePct, 100)
            /\ IsProductOver(r.value.showsPerMonth, r.value.bookingsPerMonth,
                             s.showRatePct, 100)
            /\ IsProductOver(r.value.newClientsPerMonth, r.value.showsPerMonth,
                             s.closeRatePct, 100)

\* a fractional newClientsPerMonth is returned as it is
C4_Witness ==
    /\ BothCalled
    /\ NonNegativeInputs
    /\ IsPositive(ret000.value.newClientsPerMonth)
    /\ ~IsInteger(ret000.value.newClientsPerMonth)
    /\ ~IsInteger(ret001.value.newClientsPerMonth)
    /\ ~IsInteger(ret000.value.showsPerMonth)

(***************************************************************************)
(* Reading a displayed number back: the value a reader takes from the text *)
(* (grouping commas and the currency sign carry no value).                 *)
(***************************************************************************)
DigitValue(c) == CHOOSE j \in 0..9 : DigitChars[j + 1] = c

RECURSIVE ReadDigits(_, _)
ReadDigits(txt, acc) ==
    IF txt = <<>> THEN acc
    ELSE IF Head(txt) \in {",", "$"} THEN ReadDigits(Tail(txt), acc)
    ELSE ReadDigits(Tail(txt), 10 * acc + DigitValue(Head(txt)))

ReadDisplay(txt) ==
    IF Len(txt) > 0 /\ Head(txt) = "-"
    THEN Int2Num(-ReadDigits(Tail(txt), 0))
    ELSE Int2Num(ReadDigits(txt, 0))

\* r is the integer nearest to x, a tie going to the larger one
IsNearestTiesUp(r, x) ==
    /\ IsInteger(r)
    /\ -x.den < 2 * (r.num * x.den - x.num)
    /\ 2 * (r.num * x.den - x.num) <= x.den

Nearest(x) ==
    CHOOSE r \in {Int2Num(x.num \div x.den), Int2Num((x.num \div x.den) + 1)} :
        IsNearestTiesUp(r, x)

\* |a - b| <= 1/2
WithinHalf(a, b) ==
    2 * Abs(a.num * b.den - b.num * a.den) <= a.den * b.den

\* C5 as stated: in part_000 the displayed New MRR equals the displayed
\* New Clients/Month count multiplied by pricePerClient, in every state.
C5_Original ==
    ret000.called =>
        ReadDisplay(MetricNewMRR(ret000.value))
            = Mul(ReadDisplay(MetricNewClients(ret000.value)), s.pricePerClient)

\* C5 (amended): in part_000 newMRR is exactly the displayed New Clients/Month
\* count (newClientsPerMonth rounded to the nearest integer) times
\* pricePerClient; the displayed New MRR is that product rounded to whole
\* dollars, so it equals the product whenever the product is a whole number
\* (in particular whenever pricePerClient is an integer).
C5_MrrAlignedWithCount ==
    ret000.called =>
        LET shown == ReadDisplay(MetricNewClients(ret000.value))
            product == Mul(shown, s.pricePerClient)
            usd == ReadDisplay(MetricNewMRR(ret000.value))
        IN  /\ IsNearestTiesUp(shown, ret000.value.newClientsPerMonth)
            /\ IsProductOver(ret000.value.newMRR, shown, s.pricePerClient, 1)
            /\ IsInteger(product) => usd = product
            /\ IsInteger(s.pricePerClient) => usd = product
            /\ WithinHalf(usd, product)

\* the count is rounded up from a fraction and the price is a whole number:
\* the New MRR shown is count * price, not newClientsPerMonth * price
C5_Witness ==
    /\ ret000.called
    /\ IsPositive(s.pricePerClient) /\ IsInteger(s.pricePerClient)
    /\ ~IsInteger(ret000.value.newClientsPerMonth)
    /\ IsPositive(ret000.value.newMRR)
    /\ ret000.value.newMRR # Mul(ret000.value.newClientsPerMonth, s.pricePerClient)
    /\ ReadDisplay(MetricNewMRR(ret000.value)) = ret000.value.newMRR

SharedOutputs ==
    {"clientsNeeded", "monthlyReach", "bookingsPerMonth", "showsPerMonth",
     "newClientsPerMonth", "monthsToGoal"}

\* C6: part_000 always returns newMRR = round(newClientsPerMonth) * pricePerClient
\* and part_001 always newMRR = newClientsPerMonth * pricePerClient; on the same
\* inputs the two return the same clientsNeeded, monthlyReach, bookingsPerMonth,
\* showsPerMonth, newClientsPerMonth and monthsToGoal, and their newMRR are
\* equal exactly when newClientsPerMonth is an integer or pricePerClient is 0.
C6_VariantsSideBySide ==
    /\ ret000.called =>
           IsProductOver(ret000.value.newMRR, Nearest(ret000.value.newClientsPerMonth),
                         s.pricePerClient, 1)
    /\ ret001.called =>
           IsProductOver(ret001.value.newMRR, ret001.value.newClientsPerMonth,
                         s.pricePerClient, 1)
    /\ BothCalled =>
           /\ \A f \in SharedOutputs : ret000.value[f] = ret001.value[f]
           /\ (ret000.value.newMRR = ret001.value.newMRR)
                  <=> (IsInteger(ret000.value.newClientsPerMonth) \/ s.pricePerClient = Zero)

\* a fractional newClientsPerMonth at a non-zero price: the two newMRR differ
C6_Witness ==
    /\ BothCalled
    /\ ~IsInteger(ret001.value.newClientsPerMonth)
    /\ s.pricePerClient # Zero
    /\ ret000.value.newMRR # ret001.value.newMRR
    /\ NumberIsFinite(ret000.value.monthsToGoal)

(***************************************************************************)
(* Properties of the loaded page (Spec) and of the query (SpecQuery).      *)
(***************************************************************************)
\* x is the decimal n / scale
IsDecimal(x, n, scale) == NumberIsFinite(x) /\ x.num * scale = n * x.den

\* st holds the seven inputs, the percentages given in tenths
IsProfile(st, target, price, videos, views, viewToBookingTenths, show, close) ==
    /\ IsDecimal(st.targetMonthlyRevenue, target, 1)
    /\ IsDecimal(st.pricePerClient, price, 1)
    /\ IsDecimal(st.videosPerMonth, videos, 1)
    /\ IsDecimal(st.avgViewsPerVideo, views, 1)
    /\ IsDecimal(st.viewToBookingRatePct, viewToBookingTenths, 10)
    /\ IsDecimal(st.showRatePct, show, 1)
    /\ IsDecimal(st.closeRatePct, close, 1)

\* r holds the seven outputs, showsPerMonth and newClientsPerMonth given in hundredths
IsProjection(r, clients, reach, bookings, showsHundredths, newClientsHundredths, mrr, months) ==
    /\ IsDecimal(r.clientsNeeded, clients, 1)
    /\ IsDecimal(r.monthlyReach, reach, 1)
    /\ IsDecimal(r.bookingsPerMonth, bookings, 1)
    /\ IsDecimal(r.showsPerMonth, showsHundredths, 100)
    /\ IsDecimal(r.newClientsPerMonth, newClientsHundredths, 100)
    /\ IsDecimal(r.newMRR, mrr, 1)
    /\ IsDecimal(r.monthsToGoal, months, 1)

JustLoadedWithoutParameters == edits = 0 /\ search = EmptyQuery

\* C7: loaded with no query parameter, part_000 starts from (50000, 500, 12, 1000,
\* 0.8, 60, 40) and shows clientsNeeded 100, monthlyReach 12000, bookings 96,
\* shows 57.6, newClients 23.04, newMRR 11500, monthsToGoal 5; part_001 starts
\* from (50000, 2000, 12, 1500, 2, 70, 25) and shows 25, 18000, 360, 252, 63,
\* 126000, 1.
C7_DefaultProfiles ==
    JustLoadedWithoutParameters =>
        /\ result.called
        /\ variant = "part_000" =>
               /\ IsProfile(state, 50000, 500, 12, 1000, 8, 60, 40)
               /\ IsProjection(result.value, 100, 12000, 96, 5760, 2304, 11500, 5)
        /\ variant = "part_001" =>
               /\ IsProfile(state, 50000, 2000, 12, 1500, 20, 70, 25)
               /\ IsProjection(result.value, 25, 18000, 360, 25200, 6300, 126000, 1)

C7_Witness ==
    /\ JustLoadedWithoutParameters
    /\ variant = "part_000"
    /\ result.called
    /\ MetricNewMRR(result.value) = <<"$", "1", "1", ",", "5", "0", "0">>
    /\ MetricMonthsToGoal(result.value) = <<"5">>

Constructed == state # NotMounted

\* C9: for each of the seven fields numberFromQuery returns the field's default
\* when the parameter is absent, empty or does not parse to a finite number, and
\* the parsed number otherwise (the text "0" included); so every field of the
\* initial state is a finite number.
C9_QueryFallback ==
    Constructed =>
        \A f \in Fields :
            LET raw == search[f]
                parsed == StringToNumber(raw.text)
                usable == ~raw.isNull /\ raw.text # <<>> /\ NumberIsFinite(parsed)
            IN  /\ NumberIsFinite(state[f])
                /\ usable => state[f] = parsed
                /\ ~usable => state[f] = Defaults(variant)[f]
                /\ (~raw.isNull /\ raw.text = <<"0">>) => state[f].num = 0

\* the parameter "0" is taken, not replaced by the default
C9_Witness ==
    /\ Constructed
    /\ ~search["pricePerClient"].isNull
    /\ search["pricePerClient"].text = <<"0">>
    /\ state["pricePerClient"].num = 0
    /\ state["targetMonthlyRevenue"] = Defaults(variant)["targetMonthlyRevenue"]

\* a parameter whose text is no finite number gives the default
C9_WitnessFallback ==
    /\ Constructed
    /\ search["closeRatePct"].text = InfinityText
    /\ state["closeRatePct"] = Defaults(variant)["closeRatePct"]

(***************************************************************************)
(* Properties of the subscribe relay (SpecRelay).                          *)
(***************************************************************************)
\* the body's email is missing, empty or not a string
EmailUnusable ==
    \/ request.kind # "object"
    \/ request.email.type # "string"
    \/ request.email.val = ""

\* C10: when the body's email is missing, empty or not a string, POST answers
\* with status 400 and ok:false, makes no outbound call, and has not read the
\* webhook configuration: the answer is 400 whether or not it is set.
C10_InvalidEmailRejected ==
    (EmailUnusable /\ pc # "awaitingJson") =>
        /\ pc = "done"
        /\ response.status = 400
        /\ response.ok = FALSE
        /\ outbound = <<>>
        /\ ~envRead

\* an email that is not a string is refused although the webhook is configured
C10_Witness ==
    /\ pc = "done"
    /\ request.kind = "object"
    /\ request.email = JsNumber("7")
    /\ env.type = "string" /\ env.val # ""
    /\ response.status = 400
    /\ outbound = <<>>

\* the body's email is a non-empty string
EmailUsable ==
    /\ request.kind = "object"
    /\ request.email.type = "string"
    /\ request.email.val # ""

\* SUBSCRIBE_WEBHOOK_URL is set to a non-empty text
WebhookConfigured == env.type = "string" /\ env.val # ""

\* the payload member of the forwarded body: null when the request gave none
ForwardedPayload ==
    IF request.payload.type \in {"undefined", "null"}
    THEN [type |-> "null", val |-> ""]
    ELSE request.payload

\* C11: for a request with a non-empty string email, once req.json() has
\* settled: without a webhook URL in the configuration POST has answered with
\* status 500 and ok:false and has made no outbound call; with one it has made
\* exactly one call, a POST to that URL with the body { email, payload, source }
\* (payload null when the request gave none, source "prjct-zenith-calculator"),
\* it has no answer while that call is pending, and it answers ok:true only
\* when the call has settled with an answer of the webhook.
C11_ForwardOrServerError ==
    (EmailUsable /\ pc # "awaitingJson") =>
        IF ~WebhookConfigured
        THEN /\ pc = "done"
             /\ response.status = 500
             /\ response.ok = FALSE
             /\ outbound = <<>>
        ELSE /\ Len(outbound) = 1
             /\ outbound[1].url = env.val
             /\ outbound[1].method = "POST"
             /\ DOMAIN outbound[1].body = {"email", "payload", "source"}
             /\ outbound[1].body.email = request.email
             /\ outbound[1].body.payload = ForwardedPayload
             /\ outbound[1].body.source = "prjct-zenith-calculator"
             /\ (webhook = "pending") = (pc = "fetching")
             /\ pc = "fetching" => response = [status |-> 0, ok |-> FALSE, error |-> "none"]
             /\ response.ok => (pc = "done" /\ webhook \notin {"pending", "rejects"})

\* a request without payload was forwarded with payload null and answered ok:true
C11_Witness ==
    /\ EmailUsable
    /\ WebhookConfigured
    /\ request.payload.type = "undefined"
    /\ pc = "done"
    /\ webhook = "200"
    /\ Len(outbound) = 1
    /\ outbound[1].body.payload.type = "null"
    /\ response.ok

\* a valid email without webhook configuration was answered with status 500
C11_WitnessServerError ==
    /\ EmailUsable
    /\ env.type = "undefined"
    /\ pc = "done"
    /\ response.status = 500
    /\ outbound = <<>>

\* the outbound call threw, or the webhook answered with an error status
RelayFailed == webhook \in {"rejects", "404", "500"}

\* C12: whenever relaying to the webhook has failed (the outbound call threw or
\* the webhook answered with an error status) the relay's answer has ok:false
\* and a non-success status, and at most one outbound call was made.
C12_Original ==
    /\ Len(outbound) <= 1
    /\ RelayFailed =>
           /\ response.ok = FALSE
           /\ response.status \notin 200..299

\* C12, the part the code keeps: a thrown outbound call is answered with
\* status 400 and ok:false, and at most one outbound call is made per request.
C12_ThrowReportedNoRetry ==
    /\ Len(outbound) <= 1
    /\ webhook = "rejects" =>
           /\ response.ok = FALSE
           /\ response.status = 400

\* the webhook answered with status 500 and the caller was told ok:true
C12_Witness ==
    /\ webhook = "500"
    /\ pc = "done"
    /\ Len(outbound) = 1
    /\ response.ok
    /\ response.status = 200

(***************************************************************************)
(* Properties of the page (Spec).                                          *)
(***************************************************************************)
\* every field of Home's state is a finite number
AllFinite == \A f \in Fields : NumberIsFinite(state[f])

\* C13: after the load and any sequence of typing, blurs and slider moves,
\* every one of the seven fields of the state is a finite number, in both
\* pages, so computeProjection is never called with a NaN or infinite field.
C13_Original == AllFinite

\* C13, part_000 alone: commitIfValid keeps every field of the state finite.
C13_RoundedPageFinite == variant = "part_000" => AllFinite

\* part_001 has taken a typed text beyond the range of a double into the state
C13_Witness ==
    /\ variant = "part_001"
    /\ edits > 0
    /\ state["pricePerClient"].kind = "Infinity"
    /\ result.called

\* C14: in every rendered state the projection shown is computeProjection of
\* the current state: each edit recomputes it from the whole new state, it is
\* never stale.
C14_ResultFollowsState ==
    /\ result.called
    /\ variant = "part_000" => result.value = computeProjection_000(state)
    /\ variant = "part_001" => result.value = computeProjection_001(state)

\* after an edit the projection shown differs from the one of the load
C14_Witness ==
    /\ edits > 0
    /\ state # InitialState(variant, search)
    /\ result.called
    /\ result.value = computeProjection(variant, state)
    /\ result.value # computeProjection(variant, InitialState(variant, search))

\* the address holds the seven field names, each once, with the text of the value
AddressHoldsState ==
    /\ DOMAIN address = Fields
    /\ \A f \in Fields :
           /\ ~address[f].isNull
           /\ address[f].text = NumberToString(state[f])

\* read from the address, every finite field comes back, whatever the fallback
ReadsBack ==
    \A f \in Fields :
        NumberIsFinite(state[f]) =>
            \A v \in Variants : numberFromQuery(address, f, Defaults(v)[f]) = state[f]

\* C15: after the mount and after every change of the state the address holds
\* exactly the seven field names, each set to the string form of the current
\* value; numberFromQuery of the written text gives the value back for every
\* finite value, 0 included, whatever the default; and a reload from that
\* address leaves every finite field of the state as it was.
C15_AddressRoundTrip ==
    /\ [](AddressHoldsState /\ ReadsBack)
    /\ [][event'.kind = "load" =>
             /\ search' = address
             /\ \A f \in Fields : NumberIsFinite(state[f]) => state'[f] = state[f]]_vars

\* the page was reloaded from an address written after an edit to 0 and to a fraction
C15_Witness ==
    /\ edits = MaxEdits
    /\ search = address
    /\ search # EmptyQuery
    /\ state = InitialState(variant, search)
    /\ state["videosPerMonth"].num = 0
    /\ \E f \in Fields : state[f].den = 2
    /\ state["videosPerMonth"] # Defaults(variant)["videosPerMonth"]

\* the text is empty or does not parse to a finite number
NotCommittable(txt) == txt = <<>> \/ StringToNumber(txt).kind # "finite"

\* C16: in part_000's LabeledNumber, for every typing and blur event of a
\* number field f: typing an empty or non-finite text changes the local text
\* of f to it and nothing else, the state stays as it is; typing a text that
\* parses to a finite number sets state[f] to that number in the same step;
\* a blur with empty text sets state[f] to the field's min and the text to
\* its string form; and whenever state[f] changes, the local text of f
\* becomes the string form of the new value.
C16_LabeledNumberEvents ==
    [][variant = "part_000" =>
        LET f == event'.field
            v == event'.value
        IN  /\ event'.kind = "type" =>
                   IF NotCommittable(v)
                   THEN /\ state' = state
                        /\ text' = [text EXCEPT ![f] = v]
                   ELSE state'[f] = StringToNumber(v)
            /\ (event'.kind = "blur" /\ text[f] = <<>>) =>
                   /\ state'[f] = NumberMin[f]
                   /\ text'[f] = NumberToString(NumberMin[f])
            /\ \A g \in NumberFields :
                   state'[g] # state[g] => text'[g] = NumberToString(state'[g])
    ]_vars

\* a text beyond the range of a double was typed and the value is the one before
C16_Witness ==
    /\ variant = "part_000"
    /\ edits > 0
    /\ text["pricePerClient"] = <<"1", "e", "9", "9", "9">>
    /\ state["pricePerClient"] = InitialState(variant, search)["pricePerClient"]

\* the text typed with a leading zero was replaced by the string form of the value
C16_WitnessReset ==
    /\ variant = "part_000"
    /\ edits = 1
    /\ state["videosPerMonth"] = [kind |-> "finite", num |-> 8, den |-> 1]
    /\ text["videosPerMonth"] = <<"8">>

\* the fields whose value the step changes
Changed == {g \in Fields : state'[g] # state[g]}

\* C17: every edit (typing, blur, slider move; both pages) changes no field
\* of the state but its own: what part_001's number input or a slider hands
\* over becomes, as a number, the value of the named field, so does the
\* finite number typed in part_000, and the other six fields stay as they
\* were.
C17_OneFieldPerEdit ==
    [][event'.kind \in {"type", "blur", "slide"} =>
        LET f == event'.field
            v == StringToNumber(event'.value)
        IN  /\ Changed \subseteq {f}
            /\ (event'.kind = "slide" \/ (event'.kind = "type" /\ variant = "part_001"))
                   => state'[f] = v
            /\ (event'.kind = "type" /\ variant = "part_000" /\ ~NotCommittable(event'.value))
                   => state'[f] = v
    ]_vars

\* two edits of two fields: both values are in the state, the second edit kept the first
C17_Witness ==
    /\ edits = 2
    /\ search = EmptyQuery
    /\ state["videosPerMonth"] = [kind |-> "finite", num |-> 8, den |-> 1]
    /\ state["showRatePct"] = [kind |-> "finite", num |-> 100, den |-> 1]
    /\ \A g \in Fields \ {"videosPerMonth", "showRatePct"} : state[g] = Defaults(variant)[g]

(***************************************************************************)
(* The zero-revenue window of the rounded-aligned page (SpecEngine).       *)
(***************************************************************************)
\* 0 < x < 1/2 and x >= 1/2, on numerator and denominator
BelowHalf(x) == x.kind = "finite" /\ x.num > 0 /\ 2 * x.num < x.den
HalfOrMore(x) == x.kind = "finite" /\ 2 * x.num >= x.den

\* C18: in part_000, with pricePerClient > 0 and no negative input, newMRR > 0
\* exactly when newClientsPerMonth >= 0.5; Months to Goal shows a number while
\* New Clients/Month shows 0 and New MRR shows $0 exactly when
\* 0 < newClientsPerMonth < 0.5; in every other state a finite monthsToGoal
\* comes with a positive newMRR.
C18_ZeroRevenueWindow ==
    (ret000.called /\ NonNegativeInputs /\ s.pricePerClient.num > 0) =>
        LET r == ret000.value
            n == r.newClientsPerMonth
            shown == /\ MetricMonthsToGoal(r) # <<"EMDASH">>
                     /\ IsDisplayedNumber(MetricMonthsToGoal(r))
                     /\ MetricNewClients(r) = <<"0">>
                     /\ MetricNewMRR(r) = <<"$", "0">>
        IN  /\ (r.newMRR.kind = "finite" /\ r.newMRR.num > 0) <=> HalfOrMore(n)
            /\ shown <=> BelowHalf(n)
            /\ (~BelowHalf(n) /\ r.monthsToGoal.kind = "finite") => r.newMRR.num > 0

\* a quarter of a client a month: a finite Months to Goal beside 0 clients and $0
C18_Witness ==
    /\ ret000.called
    /\ NonNegativeInputs
    /\ s.pricePerClient.num > 0
    /\ BelowHalf(ret000.value.newClientsPerMonth)
    /\ ret000.value.monthsToGoal.kind = "finite"
    /\ ret000.value.monthsToGoal.num > 0
    /\ ret000.value.newMRR.num = 0
    /\ MetricNewMRR(ret000.value) = <<"$", "0">>

\* exactly half a client a month is rounded up to one client's price
C18_WitnessHalf ==
    /\ ret000.called
    /\ NonNegativeInputs
    /\ s.pricePerClient.num > 0
    /\ ret000.value.newClientsPerMonth = [kind |-> "finite", num |-> 1, den |-> 2]
    /\ ret000.value.newMRR = s.pricePerClient

====
